---- MODULE Spec2Model ----
(***************************************************************************)
(* State-machine model of the StoryMap component (src/src/App.tsx): the    *)
(* chapter state, the free-mode switch, the auto-rotation effect with its  *)
(* map listeners, and the flyTo effect.                                    *)
(*                                                                         *)
(* Units.  Zoom is kept in tenths (zoom 2.8 is 28), latitude and longitude *)
(* in 1/10000 degree (40.7128 is 407128), opacity in hundredths (0.7 is    *)
(* 70), so that every number of the source is an integer here.  An         *)
(* optional field (url?, opacity?) is a sequence of length 0 or 1.         *)
(***************************************************************************)
EXTENDS Integers, Sequences, FiniteSets, TLC

VARIABLES
    phase,            \* "init" (rendered, effects pending), "mounted", "unmounted"
    activeLayer,      \* useState(LAYERS[0])
    visibleId,        \* useState<string | null>(null)
    freeMode,         \* useState(false)
    isMobile,         \* useState(false)
    mapRef,           \* useRef<mapboxgl.Map | null>(null): Null or "map"
    mapLoaded,        \* useState(false)
    listeners,        \* the map's handler count per event (map.on / map.off)
    userInteracting,  \* the live rotation closure's flag
    hasCleanup,       \* the rotation effect's last run returned a cleanup
    anim,             \* the camera animation in flight: "none", "easeTo", "flyTo"
    zoom,             \* map.getZoom(), in tenths
    cmds,             \* the map calls made by the last step, in order
    ev,               \* the last event delivered: [op, id]
    view              \* the last render output

vars == <<phase, activeLayer, visibleId, freeMode, isMobile, mapRef, mapLoaded,
          listeners, userInteracting, hasCleanup, anim, zoom, cmds, ev, view>>

Null == "null"

\* ------------------------------------------------------------------ catalog

LAYERS ==
    << [id |-> "intro-globe",    url |-> <<>>,                 opacity |-> <<>>,
        view |-> [latitude |-> 0,      longitude |-> 0,       zoom |-> 20]],
       [id |-> "total-methane",  url |-> <<"total-methane">>,  opacity |-> <<70>>,
        view |-> [latitude |-> 375000, longitude |-> -950000, zoom |-> 28]],
       [id |-> "no2-monthly",    url |-> <<"no2-monthly">>,    opacity |-> <<60>>,
        view |-> [latitude |-> 407128, longitude |-> -740060, zoom |-> 65]],
       [id |-> "days-above-90f", url |-> <<"days-above-90f">>, opacity |-> <<45>>,
        view |-> [latitude |-> 250000, longitude |-> -1000000, zoom |-> 32]],
       [id |-> "geoglam",        url |-> <<"geoglam">>,        opacity |-> <<50>>,
        view |-> [latitude |-> 100000, longitude |-> 300000,  zoom |-> 20]],
       [id |-> "grdi-v1",        url |-> <<"grdi-v1">>,        opacity |-> <<40>>,
        view |-> [latitude |-> 210000, longitude |-> 780000,  zoom |-> 38]],
       [id |-> "poi-showcase",   url |-> <<>>,                 opacity |-> <<>>,
        view |-> [latitude |-> 200000, longitude |-> 0,       zoom |-> 18]],
       [id |-> "finale",         url |-> <<>>,                 opacity |-> <<>>,
        view |-> [latitude |-> 0,      longitude |-> 0,       zoom |-> 13]] >>

Catalog == {LAYERS[i] : i \in 1..Len(LAYERS)}

CatalogIds == {l.id : l \in Catalog}

\* The payloads a step-entered notification may carry: the catalog's ids and
\* one id that no catalog entry has.
StepIds == CatalogIds \cup {"not-in-catalog"}

\* LayersFind with a fallback to the first chapter on a miss.
LayersFindOrFirst(id) ==
    LET hits == {i \in 1..Len(LAYERS) : LAYERS[i].id = id}
    IN  IF hits = {} THEN <<LAYERS[1]>>
        ELSE <<LAYERS[CHOOSE i \in hits : \A j \in hits : i <= j]>>

\* LAYERS.find((l) => l.id === id): the matching entries, first match first
\* (<<>> is find's undefined).
LayersFind(id) ==
    LET hits == {i \in 1..Len(LAYERS) : LAYERS[i].id = id}
    IN  IF hits = {} THEN <<>>
        ELSE <<LAYERS[CHOOSE i \in hits : \A j \in hits : i <= j]>>

\* ------------------------------------------------------------ rotation constants

secondsPerRevolution == 120

maxSpinZoom == 50

slowSpinZoom == 30

\* 360 / secondsPerRevolution, scaled down between slowSpinZoom and
\* maxSpinZoom by max(0, (maxSpinZoom - zoom) / (maxSpinZoom - slowSpinZoom));
\* the result is in 1/10000 degree.
distancePerSecond(z) ==
    LET full == (360 * 10000) \div secondsPerRevolution
    IN  IF z > slowSpinZoom
        THEN LET num == maxSpinZoom - z
             IN  IF num > 0 THEN (full * num) \div (maxSpinZoom - slowSpinZoom) ELSE 0
        ELSE full

\* spinStopsAtZoom with > for >=.
spinStopsAboveZoom(z) == z > maxSpinZoom

\* if (zoom >= maxSpinZoom) return;
spinStopsAtZoom(z) == z >= maxSpinZoom

\* ------------------------------------------------------------ the map engine

Events == {"mousedown", "mouseup", "dragend", "pitchend", "rotateend", "moveend"}

\* The zoom levels the map may report: the initial view's zoom and the two
\* thresholds with their neighbours.
ZoomSamples ==
    {LAYERS[1].view.zoom, slowSpinZoom, slowSpinZoom + 1, maxSpinZoom - 1, maxSpinZoom}

\* What the engine answers during one step: its zoom, and whether
\* interrupting an animation delivers move-end to the listeners at once.
Readings == [zoom : ZoomSamples, sync : BOOLEAN]

\* The map-side state threaded through one step.
MapState(l, u, c, a) ==
    [listeners |-> l, userInteracting |-> u, hasCleanup |-> c, anim |-> a, cmds |-> <<>>]

MapOn(m, event, handler) ==
    [m EXCEPT !.listeners[event] = @ + 1,
              !.cmds = Append(@, [op |-> "on", event |-> event, handler |-> handler])]

MapOff(m, event, handler) ==
    [m EXCEPT !.listeners[event] = IF @ > 0 THEN @ - 1 ELSE 0,
              !.cmds = Append(@, [op |-> "off", event |-> event, handler |-> handler])]

RECURSIVE spinGlobe(_, _)

\* Interrupting the animation in flight ends it; its move-end reaches the
\* moveend listener (spinGlobe) when the engine delivers it at once.
MapInterrupt(m, e) ==
    IF m.anim = "none" THEN m
    ELSE LET m1 == [m EXCEPT !.anim = "none"]
         IN  IF e.sync /\ m1.listeners["moveend"] > 0 THEN spinGlobe(m1, e) ELSE m1

MapStop(m, e) ==
    LET m1 == [m EXCEPT !.cmds = Append(@, [op |-> "stop"])]
    IN  MapInterrupt(m1, e)

\* map.easeTo({center, duration: 1000, easing: (n) => n, essential: true})
\* with center = map.getCenter() moved by -d in longitude: the target is
\* recorded by its shift from the center read.
MapEaseTo(m, e, d) ==
    LET m1 == MapInterrupt(m, e)
    IN  [m1 EXCEPT !.anim = "easeTo",
                   !.cmds = Append(@, [op |-> "easeTo",
                                       lngShift |-> 0 - d,
                                       latShift |-> 0,
                                       zoom |-> e.zoom,
                                       duration |-> 1000,
                                       easing |-> "linear"])]

MapFlyTo(m, e, layer) ==
    LET m1 == MapInterrupt(m, e)
    IN  [m1 EXCEPT !.anim = "flyTo",
                   !.cmds = Append(@, [op |-> "flyTo",
                                       center |-> [lng |-> layer.view.longitude,
                                                   lat |-> layer.view.latitude],
                                       zoom |-> layer.view.zoom,
                                       pitch |-> 20,
                                       bearing |-> 0,
                                       easing |-> "cubicOut"])]

\* ------------------------------------------------------- the rotation effect

spinGlobe(m, e) ==
    IF m.userInteracting THEN m
    ELSE IF spinStopsAtZoom(e.zoom) THEN m
    ELSE MapEaseTo(m, e, distancePerSecond(e.zoom))

\* pause without setting userInteracting.
pauseStopOnly(m, e) == MapStop(m, e)

pause(m, e) == MapStop([m EXCEPT !.userInteracting = TRUE], e)

\* resume without clearing userInteracting.
resumeKeepFlag(m, e) == spinGlobe(m, e)

resume(m, e) == spinGlobe([m EXCEPT !.userInteracting = FALSE], e)

\* RegisterListeners without the moveend handler.
RegisterListenersButMoveEnd(m) ==
    LET m1 == MapOn(m,  "mousedown", "pause")
        m2 == MapOn(m1, "mouseup",   "resume")
        m3 == MapOn(m2, "dragend",   "resume")
        m4 == MapOn(m3, "pitchend",  "resume")
    IN  MapOn(m4, "rotateend", "resume")

RegisterListeners(m) ==
    LET m1 == MapOn(m,  "mousedown", "pause")
        m2 == MapOn(m1, "mouseup",   "resume")
        m3 == MapOn(m2, "dragend",   "resume")
        m4 == MapOn(m3, "pitchend",  "resume")
        m5 == MapOn(m4, "rotateend", "resume")
    IN  MapOn(m5, "moveend", "spinGlobe")

\* RemoveListeners without the moveend handler.
RemoveListenersButMoveEnd(m) ==
    LET m1 == MapOff(m,  "mousedown", "pause")
        m2 == MapOff(m1, "mouseup",   "resume")
        m3 == MapOff(m2, "dragend",   "resume")
        m4 == MapOff(m3, "pitchend",  "resume")
    IN  MapOff(m4, "rotateend", "resume")

RemoveListeners(m) ==
    LET m1 == MapOff(m,  "mousedown", "pause")
        m2 == MapOff(m1, "mouseup",   "resume")
        m3 == MapOff(m2, "dragend",   "resume")
        m4 == MapOff(m3, "pitchend",  "resume")
        m5 == MapOff(m4, "rotateend", "resume")
    IN  MapOff(m5, "moveend", "spinGlobe")

\* RotationCleanup with map.stop() ahead of the map.off calls.
RotationCleanupStopFirst(m, e) ==
    [RemoveListeners(MapStop(m, e)) EXCEPT !.hasCleanup = FALSE]

\* The cleanup the effect returns on the intro chapter.
RotationCleanup(m, e) ==
    [MapStop(RemoveListeners(m), e) EXCEPT !.hasCleanup = FALSE]

\* The effect's body, run with the state of the new render.
RotationBody(m, e, loaded, ref, layer) ==
    IF ~loaded THEN m
    ELSE IF ref = Null THEN m
    ELSE IF layer.id # "intro-globe" THEN MapStop(m, e)
    ELSE LET m1 == RegisterListeners([m EXCEPT !.userInteracting = FALSE])
         IN  [spinGlobe(m1, e) EXCEPT !.hasCleanup = TRUE]

\* The rotation effect without a dependency array: it runs on every render.
RotationDepsAlways(loaded0, layer0, loaded1, layer1) == TRUE

\* The dependency array [mapLoaded, activeLayer.id].
RotationDepsChanged(loaded0, layer0, loaded1, layer1) ==
    loaded0 # loaded1 \/ layer0.id # layer1.id

RotationEffect(m, e, loaded, ref, layer) ==
    LET m1 == IF m.hasCleanup THEN RotationCleanup(m, e) ELSE m
    IN  RotationBody(m1, e, loaded, ref, layer)

\* ---------------------------------------------------------- the flyTo effect

\* The flyTo effect without a dependency array: it runs on every render.
FlyToDepsAlways(layer0, layer1) == TRUE

\* The dependency array [activeLayer] (compared by identity; the catalog's
\* entries are distinct objects).
FlyToDepsChanged(layer0, layer1) == layer0 # layer1

FlyToEffect(m, e, ref, layer) ==
    IF ref = Null THEN m ELSE MapFlyTo(m, e, layer)

\* ------------------------------------------------------------------ render

\* {activeLayer.url && <Source type="raster" ...><Layer paint raster-opacity />}
renderRaster(layer) ==
    IF layer.url # <<>>
    THEN <<[tiles |-> layer.url[1],
            opacity |-> IF layer.opacity # <<>> THEN layer.opacity[1] ELSE 60]>>
    ELSE <<>>

\* renderCountryMask without the free-mode test.
renderCountryMaskAlways(layer, fm) ==
    IF layer.id \notin {"total-methane", "grdi-v1"} THEN <<>>
    ELSE <<IF layer.id = "total-methane" THEN "USA" ELSE "IND">>

\* The region the spotlight mask cuts out, <<>> when no mask is rendered.
renderCountryMask(layer, fm) ==
    IF fm THEN <<>>
    ELSE IF layer.id \notin {"total-methane", "grdi-v1"} THEN <<>>
    ELSE <<IF layer.id = "total-methane" THEN "USA" ELSE "IND">>

renderPOIs(layer) == layer.id = "poi-showcase"

\* {freeMode && !isMobile && <button onClick toggle>}
FreeToggleRendered(fm, mob) == fm /\ ~mob

\* {!freeMode && !isMobile && <div> ... {!isMobile && <button onClick toggle>}
\*  <Scrollama onStepEnter={handleStepEnter}> ... </div>}
StoryPanelRendered(fm, mob) == ~fm /\ ~mob

StoryToggleRendered(fm, mob) == StoryPanelRendered(fm, mob) /\ ~mob

\* The picker rendered in story mode too.
PickerRenderedAlways(fm) == TRUE

\* {freeMode && <div> LAYERS.map(l => <div onClick={() => setActiveLayer(l)}>) </div>}
PickerRendered(fm) == fm

Render(layer, fm, mob) ==
    [raster      |-> renderRaster(layer),
     mask        |-> renderCountryMask(layer, fm),
     pois        |-> renderPOIs(layer),
     freeToggle  |-> FreeToggleRendered(fm, mob),
     storyPanel  |-> StoryPanelRendered(fm, mob),
     storyToggle |-> StoryToggleRendered(fm, mob),
     picker      |-> PickerRendered(fm)]

\* ------------------------------------------------------------------- state

NoListeners == [x \in Events |-> 0]

Init ==
    /\ phase = "init"
    /\ activeLayer = LAYERS[1]
    /\ visibleId = Null
    /\ freeMode = FALSE
    /\ isMobile = FALSE
    /\ mapRef = Null
    /\ mapLoaded = FALSE
    /\ listeners = NoListeners
    /\ userInteracting = FALSE
    /\ hasCleanup = FALSE
    /\ anim = "none"
    /\ zoom = LAYERS[1].view.zoom
    /\ cmds = <<>>
    /\ ev = [op |-> "render", id |-> Null]
    /\ view = Render(LAYERS[1], FALSE, FALSE)

Here == MapState(listeners, userInteracting, hasCleanup, anim)

ReadingsNow == {e \in Readings : e.zoom = zoom}

\* The map-side variables after a step that ended in map state m.
SetMap(m) ==
    /\ listeners' = m.listeners
    /\ userInteracting' = m.userInteracting
    /\ hasCleanup' = m.hasCleanup
    /\ anim' = m.anim
    /\ cmds' = m.cmds

\* A render with the new state followed by the effects whose dependencies
\* changed, in the order the component declares them.
Rerender(layer, vis, fm, mob, ref, loaded, e) ==
    LET m1 == IF RotationDepsChanged(mapLoaded, activeLayer, loaded, layer)
              THEN RotationEffect(Here, e, loaded, ref, layer) ELSE Here
        m2 == IF FlyToDepsChanged(activeLayer, layer)
              THEN FlyToEffect(m1, e, ref, layer) ELSE m1
    IN  /\ activeLayer' = layer
        /\ visibleId' = vis
        /\ freeMode' = fm
        /\ isMobile' = mob
        /\ mapRef' = ref
        /\ mapLoaded' = loaded
        /\ view' = Render(layer, fm, mob)
        /\ SetMap(m2)

\* ------------------------------------------------------------------ actions

\* DetectMobile without the forced free mode.
DetectMobileOnly(mobile, fm) == [isMobile |-> mobile, freeMode |-> fm]

\* The mobile-detection effect: setIsMobile(mobile); if (mobile) setFreeMode(true).
DetectMobile(mobile, fm) == [isMobile |-> mobile, freeMode |-> IF mobile THEN TRUE ELSE fm]

\* The first commit: the three effects run in order, then the state the first
\* one set is rendered.
Mount(mobile) ==
    /\ phase = "init"
    /\ phase' = "mounted"
    /\ ev' = [op |-> "mount", id |-> Null]
    /\ UNCHANGED zoom
    /\ \E e \in ReadingsNow :
         LET d  == DetectMobile(mobile, freeMode)
             m1 == RotationEffect(Here, e, mapLoaded, mapRef, activeLayer)
             m2 == FlyToEffect(m1, e, mapRef, activeLayer)
         IN  /\ isMobile' = d.isMobile
             /\ freeMode' = d.freeMode
             /\ view' = Render(activeLayer, d.freeMode, d.isMobile)
             /\ SetMap(m2)
             /\ UNCHANGED <<activeLayer, visibleId, mapRef, mapLoaded>>

\* ref={(ref) => (mapRef.current = ref?.getMap?.() ?? null)} once the Map
\* component has its map instance.
MapRefAttach ==
    /\ phase = "mounted"
    /\ mapRef = Null
    /\ mapRef' = "map"
    /\ ev' = [op |-> "ref", id |-> Null]
    /\ cmds' = <<>>
    /\ UNCHANGED <<phase, activeLayer, visibleId, freeMode, isMobile, mapLoaded,
                   listeners, userInteracting, hasCleanup, anim, zoom, view>>

\* onLoad={(e) => { mapRef.current = e.target; setMapLoaded(true); }}
MapLoad ==
    /\ phase = "mounted"
    /\ ~mapLoaded
    /\ ev' = [op |-> "load", id |-> Null]
    /\ UNCHANGED <<phase, zoom>>
    /\ \E e \in ReadingsNow :
         Rerender(activeLayer, visibleId, freeMode, isMobile, "map", TRUE, e)

\* handleStepEnter without the free-mode early return.
handleStepEnterUnguarded(fm, layer, vis, id) ==
    LET next == LayersFind(id)
    IN  IF next # <<>>
        THEN [activeLayer |-> next[1], visibleId |-> id]
        ELSE [activeLayer |-> layer, visibleId |-> vis]

handleStepEnter(fm, layer, vis, id) ==
    IF fm THEN [activeLayer |-> layer, visibleId |-> vis]
    ELSE LET next == LayersFind(id)
         IN  IF next # <<>>
             THEN [activeLayer |-> next[1], visibleId |-> id]
             ELSE [activeLayer |-> layer, visibleId |-> vis]

\* A step-entered notification reaches handleStepEnter.  It is deliverable in
\* every mounted state, free mode included (where the story panel is not
\* rendered): the handler's own freeMode test decides what it does.
StepEnter(id) ==
    /\ phase = "mounted"
    /\ ev' = [op |-> "stepEnter", id |-> id]
    /\ UNCHANGED <<phase, zoom>>
    /\ \E e \in ReadingsNow :
         LET s == handleStepEnter(freeMode, activeLayer, visibleId, id)
         IN  Rerender(s.activeLayer, s.visibleId, freeMode, isMobile, mapRef, mapLoaded, e)

\* setFreeMode((v) => !v)
toggleFreeMode(fm, layer) == [freeMode |-> ~fm, activeLayer |-> layer]

Toggle(button) ==
    /\ ev' = [op |-> button, id |-> Null]
    /\ UNCHANGED <<phase, zoom>>
    /\ \E e \in ReadingsNow :
         LET s == toggleFreeMode(freeMode, activeLayer)
         IN  Rerender(s.activeLayer, visibleId, s.freeMode, isMobile, mapRef, mapLoaded, e)

ToggleFromFreePanel ==
    /\ phase = "mounted"
    /\ view.freeToggle
    /\ Toggle("freeToggle")

ToggleFromStoryPanel ==
    /\ phase = "mounted"
    /\ view.storyToggle
    /\ Toggle("storyToggle")

\* onClick={() => setActiveLayer(l)} on the picker's entry for l.
SelectChapter(l) ==
    /\ phase = "mounted"
    /\ view.picker
    /\ ev' = [op |-> "select", id |-> l.id]
    /\ UNCHANGED <<phase, zoom>>
    /\ \E e \in ReadingsNow :
         Rerender(l, visibleId, freeMode, isMobile, mapRef, mapLoaded, e)

\* The handler map.on registered for each event.
Handle(event, m, e) ==
    IF m.listeners[event] = 0 THEN m
    ELSE IF event = "mousedown" THEN pause(m, e)
    ELSE IF event = "moveend" THEN spinGlobe(m, e)
    ELSE resume(m, e)

\* The map delivers a pointer or gesture event.
MapEvent(event) ==
    /\ phase = "mounted"
    /\ mapRef # Null
    /\ ev' = [op |-> event, id |-> Null]
    /\ \E e \in ReadingsNow : SetMap(Handle(event, Here, e))
    /\ UNCHANGED <<phase, activeLayer, visibleId, freeMode, isMobile, mapRef,
                   mapLoaded, zoom, view>>

MouseDown == MapEvent("mousedown")

MouseUp == MapEvent("mouseup")

DragEnd == MapEvent("dragend")

PitchEnd == MapEvent("pitchend")

RotateEnd == MapEvent("rotateend")

\* A camera move completes: the animation in flight, if any, is over.
MoveEnd ==
    /\ phase = "mounted"
    /\ mapRef # Null
    /\ ev' = [op |-> "moveend", id |-> Null]
    /\ \E e \in ReadingsNow :
         SetMap(Handle("moveend", [Here EXCEPT !.anim = "none"], e))
    /\ UNCHANGED <<phase, activeLayer, visibleId, freeMode, isMobile, mapRef,
                   mapLoaded, zoom, view>>

\* The camera's zoom changes (a wheel zoom, an animation's progress).
CameraZoom(z) ==
    /\ phase = "mounted"
    /\ mapRef # Null
    /\ z # zoom
    /\ zoom' = z
    /\ ev' = [op |-> "zoom", id |-> Null]
    /\ cmds' = <<>>
    /\ UNCHANGED <<phase, activeLayer, visibleId, freeMode, isMobile, mapRef,
                   mapLoaded, listeners, userInteracting, hasCleanup, anim, view>>

\* The component unmounts: the rotation effect's cleanup runs, the ref
\* callback is called with null.
Unmount ==
    /\ phase = "mounted"
    /\ phase' = "unmounted"
    /\ mapRef' = Null
    /\ ev' = [op |-> "unmount", id |-> Null]
    /\ \E e \in ReadingsNow :
         SetMap(IF hasCleanup THEN RotationCleanup(Here, e) ELSE Here)
    /\ UNCHANGED <<activeLayer, visibleId, freeMode, isMobile, mapLoaded, zoom, view>>

Next ==
    \/ \E mobile \in BOOLEAN : Mount(mobile)
    \/ MapRefAttach
    \/ MapLoad
    \/ \E id \in StepIds : StepEnter(id)
    \/ ToggleFromFreePanel
    \/ ToggleFromStoryPanel
    \/ \E l \in Catalog : SelectChapter(l)
    \/ MouseDown
    \/ MouseUp
    \/ DragEnd
    \/ PitchEnd
    \/ RotateEnd
    \/ MoveEnd
    \/ \E z \in ZoomSamples : CameraZoom(z)
    \/ Unmount

Spec == Init /\ [][Next]_vars

\* ------------------------------------------------------------------- claims

\* The positions of the calls of kind op in a step's call log.
Calls(log, op) == {i \in 1..Len(log) : log[i].op = op}

ToggleOps == {"freeToggle", "storyToggle"}

\* C1: in free mode a step-entered notification, with any chapter id in or
\* out of the catalog, leaves activeLayer and visibleId unchanged.
C1_FreeModeIgnoresStepEnter ==
    [][(freeMode /\ ev'.op = "stepEnter")
          => (activeLayer' = activeLayer /\ visibleId' = visibleId)]_vars

\* A step-entered notification for another catalog chapter was delivered in
\* free mode.
C1_Witness ==
    /\ ev.op = "stepEnter"
    /\ freeMode
    /\ ev.id \in CatalogIds
    /\ ev.id # activeLayer.id

\* C2: a free-mode toggle, from either button and in either direction, flips
\* freeMode and changes nothing else: activeLayer is unchanged, no map call is
\* made (no camera move, no listener registered or removed).
C2_ToggleChangesOnlyFreeMode ==
    [][(ev'.op \in ToggleOps)
          => /\ freeMode' = ~freeMode
             /\ activeLayer' = activeLayer
             /\ cmds' = <<>>
             /\ UNCHANGED <<visibleId, isMobile, mapRef, mapLoaded, listeners,
                            userInteracting, hasCleanup, anim, zoom, phase>>]_vars

\* Free mode was switched off again while the intro chapter's rotation
\* listeners were registered and a rotation step was in flight.
C2_Witness ==
    /\ ev.op = "freeToggle"
    /\ ~freeMode
    /\ hasCleanup
    /\ anim = "easeTo"

\* C3: a step-entered notification whose id no catalog entry has changes
\* neither activeLayer nor visibleId and makes no map call; the picker passes
\* catalog entries only.
C3_UnknownIdIsNoOp ==
    [][/\ (ev'.op = "stepEnter" /\ ev'.id \notin CatalogIds)
            => /\ activeLayer' = activeLayer
               /\ visibleId' = visibleId
               /\ cmds' = <<>>
               /\ UNCHANGED <<listeners, userInteracting, hasCleanup, anim>>
       /\ (ev'.op = "select") => ev'.id \in CatalogIds]_vars

\* An unknown id was delivered in story mode with the map loaded, where a
\* catalog id would have changed the chapter and moved the camera.
C3_Witness ==
    /\ ev.op = "stepEnter"
    /\ ev.id \notin CatalogIds
    /\ ~freeMode
    /\ mapLoaded
    /\ visibleId # Null

\* C4: the map holds no rotation listener when the active chapter is not the
\* intro chapter or the component is unmounted, and never more than one
\* handler per event.
C4_ListenersOnlyOnIntro ==
    /\ (activeLayer.id # "intro-globe" \/ phase = "unmounted") => listeners = NoListeners
    /\ \A x \in Events : listeners[x] <= 1

\* The intro chapter has just been left with its listeners registered: the
\* step removed all six.
C4_Witness ==
    /\ phase = "mounted"
    /\ activeLayer.id # "intro-globe"
    /\ Cardinality(Calls(cmds, "off")) = 6
    /\ listeners = NoListeners

\* C5: no step that ends on a chapter other than the intro chapter issues a
\* rotation step (easeTo), whatever the event; and a change away from the
\* intro chapter with a rotation step in flight calls map.stop() and leaves
\* no rotation step in flight.
C5_NoRotationOffIntro ==
    [][/\ (activeLayer'.id # "intro-globe") => Calls(cmds', "easeTo") = {}
       /\ (activeLayer.id = "intro-globe" /\ activeLayer'.id # "intro-globe"
             /\ anim = "easeTo")
            => (Calls(cmds', "stop") # {} /\ anim' # "easeTo")]_vars

\* The rotation was paused by a pointer-down on the intro chapter, the
\* chapter changed, and the pointer-up that would have resumed the rotation
\* arrived on the other chapter, below the zoom at which rotation stops.
C5_Witness ==
    /\ activeLayer.id # "intro-globe"
    /\ userInteracting
    /\ ev.op = "mouseup"
    /\ zoom < maxSpinZoom
    /\ cmds = <<>>

\* The flyTo call the flyTo effect makes for a chapter.
ChapterFlyTo(layer) ==
    [op |-> "flyTo",
     center |-> [lng |-> layer.view.longitude, lat |-> layer.view.latitude],
     zoom |-> layer.view.zoom,
     pitch |-> 20,
     bearing |-> 0,
     easing |-> "cubicOut"]

\* The animated camera moves of a step's call log.
AnimatedMoves(log) == Calls(log, "flyTo") \cup Calls(log, "easeTo")

\* C6 as stated: with the map object available, a step that changes
\* activeLayer makes exactly one animated camera move, the flyTo to the new
\* chapter's view with pitch 20 and bearing 0; a step that leaves activeLayer
\* unchanged makes no flyTo.
C6_ExactlyOneAnimatedMove ==
    [][/\ (activeLayer' # activeLayer /\ mapRef # Null)
            => /\ Cardinality(AnimatedMoves(cmds')) = 1
               /\ \A i \in AnimatedMoves(cmds') : cmds'[i] = ChapterFlyTo(activeLayer')
       /\ (activeLayer' = activeLayer) => Calls(cmds', "flyTo") = {}]_vars

\* C6 as amended: with the map object available, a step that changes
\* activeLayer makes exactly one flyTo, to the new chapter's view with pitch
\* 20 and bearing 0; any other animated camera move of the step is a rotation
\* step (easeTo) made on entering the intro chapter with the map loaded; a
\* step that leaves activeLayer unchanged makes no flyTo.
C6_ExactlyOneFlyTo ==
    [][/\ (activeLayer' # activeLayer /\ mapRef # Null)
            => /\ Cardinality(Calls(cmds', "flyTo")) = 1
               /\ \A i \in Calls(cmds', "flyTo") : cmds'[i] = ChapterFlyTo(activeLayer')
               /\ Calls(cmds', "easeTo") # {}
                    => (activeLayer'.id = "intro-globe" /\ mapLoaded)
       /\ (activeLayer' = activeLayer) => Calls(cmds', "flyTo") = {}]_vars

\* The intro chapter was entered by a step-entered notification with the map
\* loaded: the step made a rotation step and then the flyTo to the intro view.
C6_Witness ==
    /\ ev.op = "stepEnter"
    /\ activeLayer.id = "intro-globe"
    /\ Calls(cmds, "easeTo") # {}
    /\ Calls(cmds, "flyTo") = {Len(cmds)}
    /\ cmds[Len(cmds)] = ChapterFlyTo(LAYERS[1])

\* C7: once the startup check has found a mobile device, freeMode is true and
\* neither toggle button is rendered in every later state, and no
\* step-entered notification changes activeLayer.
C7_MobileStaysInFreeMode ==
    /\ []((phase # "init" /\ isMobile)
            => (freeMode /\ ~view.freeToggle /\ ~view.storyToggle))
    /\ [][(isMobile /\ ev'.op = "stepEnter") => activeLayer' = activeLayer]_vars
    /\ [][(phase # "init") => isMobile' = isMobile]_vars

\* On a mobile device a step-entered notification for another catalog chapter
\* was delivered after a chapter had been picked.
C7_Witness ==
    /\ isMobile
    /\ phase = "mounted"
    /\ ev.op = "stepEnter"
    /\ ev.id \in CatalogIds
    /\ ev.id # activeLayer.id
    /\ activeLayer.id # "intro-globe"

\* The longitude decrement the claim gives for a zoom in tenths, in 1/10000
\* degree: 3 degrees up to zoom 3, 3 * (5 - zoom) / 2 degrees above it.
C8_Decrement(z) == IF z <= 30 THEN 30000 ELSE 1500 * (50 - z)

\* C8: every rotation step is issued at a zoom below 5, moves the center
\* west by 3 degrees when zoom <= 3 and by 3 * (5 - zoom) / 2 degrees, strictly
\* between 0 and 3, when 3 < zoom < 5, over 1000 ms with linear easing; at
\* zoom >= 5 no rotation step is issued; and a move-end delivered to spinGlobe
\* while spinning below zoom 5 does issue one.
C8_RotationStepByZoom ==
    /\ \A i \in Calls(cmds, "easeTo") :
          /\ cmds[i].zoom = zoom
          /\ zoom < 50
          /\ cmds[i].lngShift = 0 - C8_Decrement(zoom)
          /\ cmds[i].lngShift < 0
          /\ cmds[i].latShift = 0
          /\ (zoom > 30) => (0 - cmds[i].lngShift > 0 /\ 0 - cmds[i].lngShift < 30000)
          /\ cmds[i].duration = 1000
          /\ cmds[i].easing = "linear"
    /\ (zoom >= 50) => Calls(cmds, "easeTo") = {}
    /\ (ev.op = "moveend" /\ listeners["moveend"] > 0 /\ ~userInteracting /\ zoom < 50)
          => Calls(cmds, "easeTo") # {}

\* A move-end on the intro chapter issued a rotation step just below zoom 5.
C8_Witness ==
    /\ ev.op = "moveend"
    /\ zoom = 49
    /\ Calls(cmds, "easeTo") # {}
    /\ \A i \in Calls(cmds, "easeTo") : cmds[i].lngShift = 0 - 1500

\* C9: activeLayer is always a catalog entry; a step that changes it is a
\* step-entered notification taken in story mode or a chapter selection taken
\* in free mode; no chapter selection is taken in story mode.
C9_ChapterChangesOnlyByStepOrSelect ==
    /\ [](activeLayer \in Catalog)
    /\ [][(activeLayer' # activeLayer)
            => \/ (ev'.op = "stepEnter" /\ ~freeMode /\ ev'.id = activeLayer'.id)
               \/ (ev'.op = "select" /\ freeMode /\ ev'.id = activeLayer'.id)]_vars
    /\ [][(ev'.op = "select") => (freeMode /\ view.picker)]_vars
    /\ [](~freeMode => ~view.picker)

\* A chapter was picked in free mode after the story had been scrolled to
\* another chapter.
C9_Witness ==
    /\ ev.op = "select"
    /\ freeMode
    /\ activeLayer.id = ev.id
    /\ visibleId # Null
    /\ visibleId # activeLayer.id

\* A chapter with an overlay URL and no opacity, which the catalog does not
\* have: the raster layer's default opacity applies to it.
C10_NoOpacityLayer ==
    [id |-> "no-opacity", url |-> <<"no-opacity">>, opacity |-> <<>>,
     view |-> [latitude |-> 0, longitude |-> 0, zoom |-> 20]]

\* The overlays the claim gives for a chapter and a free-mode flag.
C10_Overlays(layer, fm) ==
    [raster |-> IF layer.url = <<>> THEN <<>>
                ELSE <<[tiles |-> layer.url[1],
                        opacity |-> IF Len(layer.opacity) = 1
                                    THEN layer.opacity[1] ELSE 60]>>,
     mask   |-> IF ~fm /\ layer.id = "total-methane" THEN <<"USA">>
                ELSE IF ~fm /\ layer.id = "grdi-v1" THEN <<"IND">>
                ELSE <<>>,
     pois   |-> (layer.id = "poi-showcase")]

\* The overlay part of a render output.
Overlays(v) == [raster |-> v.raster, mask |-> v.mask, pois |-> v.pois]

\* C10: the rendered overlays are those the claim gives for (activeLayer,
\* freeMode): the raster layer iff the chapter has a URL, at its opacity or
\* 0.6; the mask iff story mode and the chapter is total-methane (USA) or
\* grdi-v1 (IND); the markers iff the chapter is poi-showcase.  The same holds
\* of the render of every catalog chapter and of a chapter without opacity.
C10_OverlaysFollowChapter ==
    /\ Overlays(view) = C10_Overlays(activeLayer, freeMode)
    /\ \A l \in Catalog \cup {C10_NoOpacityLayer} : \A fm \in BOOLEAN :
          Overlays(Render(l, fm, isMobile)) = C10_Overlays(l, fm)

\* The methane chapter is shown in story mode: raster at 0.7 and the USA mask.
C10_Witness ==
    /\ phase = "mounted"
    /\ ~freeMode
    /\ activeLayer.id = "total-methane"
    /\ view.mask = <<"USA">>
    /\ Len(view.raster) = 1
    /\ view.raster[1].opacity = 70
    /\ ~view.pois

\* The events whose handler is resume.
ResumeOps == {"mouseup", "dragend", "pitchend", "rotateend"}

\* C11: on the intro chapter a pointer-down handled by pause sets
\* userInteracting, calls map.stop(), leaves no animation in flight and issues
\* no rotation step; and while the intro chapter stays active with
\* userInteracting set, every step that is not a pointer-up, drag-end,
\* pitch-end or rotate-end (a move-end included) keeps userInteracting set and
\* issues no rotation step.
C11_PausedIssuesNoRotation ==
    [][/\ (activeLayer.id = "intro-globe" /\ ev'.op = "mousedown"
             /\ listeners["mousedown"] > 0)
            => /\ userInteracting'
               /\ Calls(cmds', "stop") # {}
               /\ anim' = "none"
               /\ Calls(cmds', "easeTo") = {}
       /\ (activeLayer.id = "intro-globe" /\ activeLayer'.id = "intro-globe"
             /\ hasCleanup /\ userInteracting /\ ev'.op \notin ResumeOps)
            => /\ userInteracting'
               /\ Calls(cmds', "easeTo") = {}]_vars

\* A move-end was delivered to spinGlobe on the intro chapter while the
\* rotation was paused, below the zoom at which rotation stops.
C11_Witness ==
    /\ activeLayer.id = "intro-globe"
    /\ hasCleanup
    /\ userInteracting
    /\ ev.op = "moveend"
    /\ zoom < maxSpinZoom
    /\ cmds = <<>>

\* C12: a pointer-up, drag-end, pitch-end or rotate-end handled by resume
\* clears userInteracting and issues a rotation step in the same step exactly
\* when zoom < 5; a step that registers the listeners (the intro chapter
\* entered with the map loaded, or the map loaded on the intro chapter) ends
\* with userInteracting clear and, when zoom < 5, has issued a rotation step.
C12_ResumeAndEntrySpin ==
    [][/\ (ev'.op \in ResumeOps /\ listeners[ev'.op] > 0)
            => /\ ~userInteracting'
               /\ (zoom < 50) <=> (Calls(cmds', "easeTo") # {})
       /\ (phase = "mounted" /\ phase' = "mounted" /\ activeLayer'.id = "intro-globe"
             /\ mapLoaded' /\ (activeLayer.id # "intro-globe" \/ ~mapLoaded))
            => /\ Cardinality(Calls(cmds', "on")) = 6
               /\ hasCleanup'
               /\ ~userInteracting'
               /\ (zoom < 50) => (Calls(cmds', "easeTo") # {})]_vars

\* A drag-end resumed the paused rotation on the intro chapter and issued a
\* rotation step.
C12_Witness ==
    /\ activeLayer.id = "intro-globe"
    /\ hasCleanup
    /\ ev.op = "dragend"
    /\ ~userInteracting
    /\ Calls(cmds, "easeTo") # {}

\* Every camera move ends: the map eventually delivers its move-end.
SpecFair == Spec /\ WF_vars(MoveEnd)

\* The rotation is live and spinning: the intro chapter is active with the
\* map loaded and its listeners registered, the user is not interacting and
\* zoom is below 5.
Spinning ==
    /\ phase = "mounted"
    /\ activeLayer.id = "intro-globe"
    /\ mapLoaded
    /\ hasCleanup
    /\ ~userInteracting
    /\ zoom < 50

\* C13: a move-end delivered while Spinning holds, whatever animation it ends
\* (a rotation step, the chapter fly-to, none), issues the next rotation step
\* and leaves it in flight; and if every camera move ends, then in a run in
\* which Spinning holds from some point on rotation steps are issued again
\* and again.
C13_SpinningKeepsRotating ==
    /\ [][(Spinning /\ ev'.op = "moveend")
            => (Calls(cmds', "easeTo") # {} /\ anim' = "easeTo")]_vars
    /\ (<>[]Spinning) => []<>(ev.op = "moveend" /\ Calls(cmds, "easeTo") # {})

\* The chapter fly-to to the intro chapter ended (no animation was left in
\* flight by a later call) and its move-end issued a rotation step.
C13_Witness ==
    /\ Spinning
    /\ ev.op = "moveend"
    /\ Len(cmds) = 1
    /\ cmds[1].op = "easeTo"
    /\ anim = "easeTo"
    /\ visibleId = "intro-globe"

\* The camera calls of a step's call log.
CameraCalls(log) == Calls(log, "stop") \cup Calls(log, "flyTo") \cup Calls(log, "easeTo")

\* C14: while the fly-to to a chapter other than the intro chapter is in
\* flight, a step that does not change activeLayer (the map-loaded event
\* included) makes no camera call, so that fly-to stays the controller's last
\* camera command; and in a step that changes activeLayer with the map object
\* available, every listener removal and every stop comes before the flyTo.
C14_FlyToIsLastCameraCommand ==
    [][/\ (phase = "mounted" /\ activeLayer.id # "intro-globe" /\ anim = "flyTo"
             /\ activeLayer' = activeLayer)
            => CameraCalls(cmds') = {}
       /\ (activeLayer' # activeLayer /\ mapRef # Null)
            => \A i \in Calls(cmds', "off") \cup Calls(cmds', "stop") :
                 \A j \in Calls(cmds', "flyTo") : i < j]_vars

\* C15: in story mode visibleId is unset or is the id of activeLayer.
C15_VisibleIdMatchesActiveInStoryMode ==
    ~freeMode => (visibleId = Null \/ visibleId = activeLayer.id)

====
